---- MODULE Spec2Model ----
(***************************************************************************)
(* CosmoCore: the condition engine (cosmo/engine/core.py), the built-in    *)
(* conditions and RuleUtilities.wait_for (cosmo/engine/builtin.py), and    *)
(* the rule manager (cosmo/rules/manager.py).                              *)
(*                                                                         *)
(* Conditions are a fixed universe of objects: two leaves a and b of a     *)
(* user-defined AbstractCondition subclass whose evaluate() reads an       *)
(* external value, and the built-in composites n = NOT a, c = a AND b,    *)
(* g = NOT c and d = a AND n. Rules are r1, a TriggerRule, and r2, a       *)
(* TimerRule.                                                              *)
(* Time is discrete: every asyncio sleep task carries the time it still    *)
(* has to sleep, and Tick lets one unit pass for all of them.              *)
(***************************************************************************)
EXTENDS Integers, Sequences, FiniteSets, Bags, TLC

\* ---------------------------------------------------------------- bounds
MaxTasks   == 3   \* sleep tasks (timers) that exist at the same time
MaxEvents  == 2   \* (fired, timed_out) Event pairs that are referenced at the same time
MaxDur     == 1   \* durations are 1..MaxDur time units
MaxTimeout == 2   \* timeouts are 1..MaxTimeout time units
MaxStale   == 1   \* cancelled sleep tasks whose done-callback has not run yet
MaxAnswers == 4   \* answers a time provider has ready for one iteration of its rule
MaxTod == 2       \* times of day are 0..MaxTod

None == 0         \* Python's None for an optional duration, timeout or event

\* ------------------------------------------------------------- universe
Leaves     == {"a", "b"}
Composites == {"n", "c", "g", "d"}
Conds      == Leaves \cup Composites

\* the rules: r1 is a TriggerRule, r2 a TimerRule
RuleIds == {"r1", "r2"}

\* The task objects that install_* creates: one for each rule id, and "r3"
\* for the task of a second install_timed_rule call with the id "r2"
TaskIds == RuleIds \cup {"r3"}

\* task.get_name()
Name(k) == IF k = "r3" THEN "r2" ELSE k

EventIds  == 1..MaxEvents
Durations == 1..MaxDur
Timeouts  == 1..MaxTimeout

\* BooleanCondition.subconditions: the children in constructor order
subconditions(c) ==
  CASE c = "n" -> <<"a">>
    [] c = "c" -> <<"a", "b">>
    [] c = "g" -> <<"c">>
    [] c = "d" -> <<"a", "n">>
    [] OTHER   -> <<>>

\* BooleanCondition._operator
operator(c) ==
  CASE c = "n" -> "not"
    [] c = "c" -> "and"
    [] c = "g" -> "not"
    [] c = "d" -> "and"
    [] OTHER   -> "leaf"

SubSet(c) == {subconditions(c)[i] : i \in 1..Len(subconditions(c))}

\* ------------------------------------------------------- datetime
\* the calendar: two years, the second a leap year; the time of day is
\* counted in units of which a day has MaxTod + 1
Years == {2023, 2024}
Months == 1..12
Tods == 0..MaxTod

\* calendar.monthrange(y, m)[1], the number of days of month m of year y
DaysIn(y, m) ==
  IF m = 2 THEN (IF y % 4 = 0 THEN 29 ELSE 28)
  ELSE IF m \in {4, 6, 9, 11} THEN 30 ELSE 31

\* datetime values <<year, month, day, time of day>>
Datetimes == {d \in Years \X Months \X (1..31) \X Tods : d[3] <= DaysIn(d[1], d[2])}

Epoch == <<2023, 1, 1, 0>>

\* d1 < d2 for datetimes (and for dates, with equal times)
Before(d1, d2) ==
  \E i \in 1..4 : d1[i] < d2[i] /\ \A j \in 1..(i - 1) : d1[j] = d2[j]

\* date.replace(day=d): "ValueError" when the month has no day d
replace_day(dt, d) ==
  IF d > DaysIn(dt[1], dt[2]) THEN "ValueError" ELSE <<dt[1], dt[2], d>>

\* datetime.date()
date(dt) == <<dt[1], dt[2], dt[3]>>

\* datetime.combine(d, t)
combine(d, t) == <<d[1], d[2], d[3], t>>

\* target_time of wait_until(t) called at now, or "ValueError"
target_time(now, t) ==
  IF Before(combine(date(now), t), now)
  THEN IF replace_day(date(now), now[3] + 1) = "ValueError" THEN "ValueError"
       ELSE combine(replace_day(date(now), now[3] + 1), t)
  ELSE combine(date(now), t)

VARIABLES
  conditions,       \* ConditionEngine._conditions: id -> (notifier, state)
  dependencies,     \* ConditionEngine._dependencies: id -> set of parent ids
  duration_timers,  \* ConditionEngine._duration_timers: whether id is a key
  timeout_timers,   \* ConditionEngine._timeout_timers: whether id is a key
  tasks,            \* the bag of sleep tasks the engine created whose done-callback
                    \* has not run; cur marks the task its timer map refers to
  cache,            \* BooleanCondition._conditions: parent -> child -> last state
  duration,         \* AbstractCondition._duration of every condition object
  timeout,          \* AbstractCondition._timeout of every condition object
  val,              \* what evaluate() of a leaf returns now
  events,           \* the fired Event objects that are set
  timeout_events,   \* the timed_out Event objects that are set
  waiter,           \* the coroutine running RuleUtilities.wait_for
  removedHook,      \* whether the user's leaf class defines removed():
                    \* "yes" or "no", "unknown" until the engine first calls it
  rule_tasks,       \* RuleManager._tasks: rule id -> the rule's task and where
                    \* its coroutine stands
  suspended_rules,  \* RuleManager._suspended_rules
  clock,            \* what datetime.now() returns: year, month, day, time of day
  until,            \* the coroutine running RuleUtilities.wait_until
  last              \* the last operation and how it ended

vars == <<conditions, dependencies, duration_timers, timeout_timers, tasks, cache,
          duration, timeout, val, events, timeout_events, waiter, removedHook,
          rule_tasks, suspended_rules, clock, until, last>>

\* an absent key of _conditions
NoEntry == [st |-> "ABSENT", ev |-> None, toev |-> None]

\* ConditionState.is_on
is_on(st) == st = "ON"

\* The engine's mutable state, threaded through the operators below; err is
\* the exception that ended the running call ("" for none), oce the pairs
\* <<parent, child>> of the on_condition_event calls of the running report
\* pass and again whether the pass made one of these calls a second time,
\* moved the conditions whose state the pass has stored and stale whether a
\* parent in moved was later told a new value of a child; rm says which
\* leaf's evaluate() calls engine.remove_condition, and for which condition.
Engine == [cs |-> conditions, dp |-> dependencies, dt |-> duration_timers,
           tt |-> timeout_timers, tk |-> tasks, ca |-> cache, es |-> events,
           ts |-> timeout_events,
           du |-> duration, to |-> timeout, hk |-> removedHook, err |-> "",
           oce |-> {}, again |-> FALSE, moved |-> {}, stale |-> FALSE,
           rm |-> [at |-> "none", x |-> "none"]]

\* ------------------------------------------------------- conditions
\* evaluate(): a leaf reads its external value, a BooleanCondition reduces
\* the cached child states with its operator.
evaluate(ca, c) ==
  CASE operator(c) = "leaf" -> val[c]
    [] operator(c) = "and"  -> \A s \in SubSet(c) : ca[c][s]
    [] operator(c) = "or"   -> \E s \in SubSet(c) : ca[c][s]
    [] operator(c) = "not"  -> ~ ca[c][subconditions(c)[1]]

\* BooleanCondition.on_condition_event
on_condition_event(ca, parent, child, state) ==
  [ca EXCEPT ![parent][child] = state]

\* BooleanCondition.initialize with the states add_condition collects
initialize(ca, cs, c) ==
  [ca EXCEPT ![c] = [s \in Conds |->
      IF s \in SubSet(c) THEN is_on(cs[s].st) ELSE ca[c][s]]]

\* whether condition.removed() can be called: EngineCondition and the
\* built-in conditions do not define it, a user's leaf class may.
has_removed(hk, c) == c \in Leaves /\ hk = "yes"

\* ------------------------------------------------------- sleep tasks
BagAdd(B, r) ==
  IF r \in DOMAIN B THEN [B EXCEPT ![r] = @ + 1]
  ELSE [x \in DOMAIN B \cup {r} |-> IF x = r THEN 1 ELSE B[x]]

BagRemove(B, r) ==
  IF B[r] > 1 THEN [B EXCEPT ![r] = @ - 1]
  ELSE [x \in DOMAIN B \ {r} |-> B[x]]

\* the sleep task that the timer map of its kind holds for c
CurTask(tk, kind, c) ==
  CHOOSE r \in DOMAIN tk : r.kind = kind /\ r.cid = c /\ r.cur

\* the timer map of kind loses its entry for c (del, or an overwrite): the
\* task goes on sleeping, nothing refers to it any more
Unref(E, kind, c) ==
  IF (IF kind = "duration" THEN E.dt[c] ELSE E.tt[c])
  THEN LET r == CurTask(E.tk, kind, c)
           E1 == [E EXCEPT !.tk = BagAdd(BagRemove(E.tk, r), [r EXCEPT !.cur = FALSE])]
       IN IF kind = "duration" THEN [E1 EXCEPT !.dt[c] = FALSE]
                               ELSE [E1 EXCEPT !.tt[c] = FALSE]
  ELSE E

\* aio.create_task(aio.sleep(d)) with its done-callback bound to the notifier,
\* stored in the timer map of its kind
create_timer(E, kind, c, ev, toev, d) ==
  LET E0 == Unref(E, kind, c)
      E1 == [E0 EXCEPT !.tk = BagAdd(E0.tk, [kind |-> kind, cid |-> c, ev |-> ev,
                 toev |-> toev, rem |-> d, cancelled |-> FALSE, cur |-> TRUE])]
  IN IF kind = "duration" THEN [E1 EXCEPT !.dt[c] = TRUE]
                          ELSE [E1 EXCEPT !.tt[c] = TRUE]

\* task.cancel() followed by del of the map entry; a cancelled sleep has no
\* time left to wait for, its done-callback is due
cancel_timer(E, kind, c) ==
  LET r == CurTask(E.tk, kind, c)
      E1 == [E EXCEPT !.tk = BagAdd(BagRemove(E.tk, r),
                 [r EXCEPT !.cancelled = TRUE, !.rem = 0, !.cur = FALSE])]
  IN IF kind = "duration" THEN [E1 EXCEPT !.dt[c] = FALSE]
                          ELSE [E1 EXCEPT !.tt[c] = FALSE]

cancel_timeout(E, c) == IF E.tt[c] THEN cancel_timer(E, "timeout", c) ELSE E

cancel_duration(E, c) == IF E.dt[c] THEN cancel_timer(E, "duration", c) ELSE E

\* ConditionNotifier.notify
notify(E, ev) == IF ev = None THEN E ELSE [E EXCEPT !.es = @ \cup {ev}]

\* ConditionNotifier.notify_timeout
notify_timeout(E, toev) == IF toev = None THEN E ELSE [E EXCEPT !.ts = @ \cup {toev}]

\* ------------------------------------------------------- add_condition
\* the test that starts the timeout timer
needs_timeout(state, dur, tmo) ==
  (state = FALSE \/ (state = TRUE /\ dur # None)) /\ tmo # None

\* a variant of initial_state that does not look at the duration
initial_state_no_duration(state, dur) == IF state THEN "ON" ELSE "OFF"

\* the state add_condition records
initial_state(state, dur) ==
  IF state THEN (IF dur # None THEN "PENDING" ELSE "ON") ELSE "OFF"

\* a variant of record_state that notifies when the condition starts ON
record_state_notifying(E, c, st, ev, toev) ==
  LET E1 == [E EXCEPT !.cs[c] = [st |-> st, ev |-> ev, toev |-> toev]]
  IN IF st = "ON" THEN notify(E1, ev) ELSE E1

\* self._conditions[id] = (notifier, state); a condition that starts ON is
\* recorded without a notification
record_state(E, c, st, ev, toev) ==
  [E EXCEPT !.cs[c] = [st |-> st, ev |-> ev, toev |-> toev]]

RECURSIVE add_condition(_, _, _, _), add_subconditions(_, _, _)

\* the loop over condition.subconditions
add_subconditions(E, c, i) ==
  IF i > Len(subconditions(c)) THEN E
  ELSE LET s  == subconditions(c)[i]
           E1 == add_condition(E, s, None, None)
           E2 == [E1 EXCEPT !.dp[s] = @ \cup {c}]
       IN add_subconditions(E2, c, i + 1)

add_condition(E, c, ev, toev) ==
  LET E1    == add_subconditions(E, c, 1)
      E2    == IF c \in Composites
               THEN [E1 EXCEPT !.ca = initialize(E1.ca, E1.cs, c)] ELSE E1
      state == evaluate(E2.ca, c)
      E3    == IF needs_timeout(state, E2.du[c], E2.to[c])
               THEN create_timer(E2, "timeout", c, ev, toev, E2.to[c]) ELSE E2
      st    == initial_state(state, E3.du[c])
      E4    == record_state(E3, c, st, ev, toev)
  IN IF st = "PENDING"
     THEN create_timer(E4, "duration", c, ev, toev, E4.du[c]) ELSE E4

\* ------------------------------------------------------- remove_condition
RECURSIVE remove_condition(_, _), remove_subconditions(_, _, _)

remove_subconditions(E, c, i) ==
  IF i > Len(subconditions(c)) THEN E
  ELSE LET E1 == remove_condition(E, subconditions(c)[i])
       IN IF E1.err # "" THEN E1 ELSE remove_subconditions(E1, c, i + 1)

remove_condition(E, c) ==
  LET E1 == [E EXCEPT !.cs[c] = NoEntry, !.dp[c] = {}]
      E2 == cancel_duration(cancel_timeout(E1, c), c)
  IN IF ~ has_removed(E.hk, c) THEN [E2 EXCEPT !.err = "AttributeError"]
     ELSE remove_subconditions(E2, c, 1)

\* ------------------------------------------------------- report_condition_event
\* new_state of a visited node
new_state(current_state, state, dur) ==
  IF current_state = "OFF" /\ state /\ dur # None THEN "PENDING"
  ELSE IF current_state = "OFF" /\ state THEN "ON"
  ELSE "OFF"

\* the branches of the visit that write new_state back to _conditions
stores_state(current_state, state) == current_state = "OFF" /\ state

\* the orders in which a Python set can be iterated
Orders(S) == {f \in [1..Cardinality(S) -> S] :
                \A i, j \in 1..Cardinality(S) : i # j => f[i] # f[j]}

\* a variant of visit that stores the new state without arming the timer
visit_unarmed(E, n) ==
  LET cid == n.cid
      cur == E.cs[cid].st
      state == evaluate(E.ca, cid)
      ns  == new_state(cur, state, E.du[cid])
  IN IF stores_state(cur, state)
     THEN [E EXCEPT !.cs[cid] = [st |-> ns, ev |-> n.ev, toev |-> n.toev]]
     ELSE E

\* the state part of one visit: evaluate, compute new_state, store, arm
visit(E, n) ==
  LET cid == n.cid
      cur == E.cs[cid].st
      state == evaluate(E.ca, cid)
      ns  == new_state(cur, state, E.du[cid])
      E1  == IF stores_state(cur, state)
             THEN [E EXCEPT !.cs[cid] = [st |-> ns, ev |-> n.ev, toev |-> n.toev]]
             ELSE E
  IN IF stores_state(cur, state) /\ ns = "PENDING"
     THEN create_timer(E1, "duration", cid, n.ev, n.toev, E1.du[cid]) ELSE E1

RECURSIVE inform_parents(_, _, _, _, _)
\* on_condition_event on every registered parent, in the order ps
inform_parents(ca, ps, i, child, state) ==
  IF i > Len(ps) THEN ca
  ELSE inform_parents(on_condition_event(ca, ps[i], child, state), ps, i + 1,
                      child, state)

notifier_of(E, c) == [cid |-> c, ev |-> E.cs[c].ev, toev |-> E.cs[c].toev]

\* curr_cond.evaluate() as a call of user code: the evaluate() of the leaf
\* E.rm.at calls engine.remove_condition(E.rm.x) before it returns its value
evaluate_call(E, cid) ==
  IF E.rm.at = cid THEN remove_condition(E, E.rm.x) ELSE E

RECURSIVE bfs(_, _, _)
\* the while loop over the work deque; the result is the set of the outcomes
\* the iteration orders of the parent sets allow. The loop ends with KeyError
\* at current_state = self._conditions[id][1] when the dequeued node is no
\* longer registered, and with the exception of an evaluate() that raises.
bfs(E, work, touched) ==
  IF work = <<>> THEN {[e |-> E, touched |-> touched]}
  ELSE IF E.cs[Head(work).cid].st = "ABSENT"
  THEN {[e |-> [E EXCEPT !.err = "KeyError"],
         touched |-> touched \cup {Head(work).cid}]}
  ELSE IF evaluate_call(E, Head(work).cid).err # ""
  THEN {[e |-> evaluate_call(E, Head(work).cid),
         touched |-> touched \cup {Head(work).cid}]}
  ELSE LET current == Head(work)
           cid == current.cid
           E0  == evaluate_call(E, cid)
           ns  == new_state(E.cs[cid].st, evaluate(E.ca, cid), E.du[cid])
           E1  == visit(E0, current)
           parents == {p \in E1.dp[cid] : E1.cs[p].st # "ABSENT"}
           calls == {<<p, cid>> : p \in parents}
           moved == IF stores_state(E.cs[cid].st, evaluate(E.ca, cid))
                    THEN E.moved \cup {cid} ELSE E.moved
       IN UNION { bfs([E1 EXCEPT !.ca = inform_parents(E1.ca, ps, 1, cid, is_on(ns)),
                                 !.again = @ \/ calls \cap E1.oce # {},
                                 !.oce = @ \cup calls,
                                 !.moved = moved,
                                 !.stale = @ \/ \E p \in parents \cap moved :
                                                  E1.ca[p][cid] # is_on(ns)],
                      Tail(work) \o [i \in 1..Len(ps) |-> notifier_of(E1, ps[i])],
                      touched \cup {cid}) : ps \in Orders(parents) }

\* the body of the second loop for one touched node
handle_change(E, cid, prev) ==
  LET curr == E.cs[cid].st
      E1 == IF prev = "OFF" /\ curr = "ON"
            THEN notify(cancel_timeout(E, cid), E.cs[cid].ev) ELSE E
  IN IF prev = "PENDING" /\ curr = "OFF" THEN cancel_duration(E1, cid) ELSE E1

RECURSIVE handle_changes(_, _, _)
handle_changes(E, S, previous_state) ==
  IF S = {} THEN E
  ELSE LET cid == CHOOSE x \in S : TRUE
       IN handle_changes(handle_change(E, cid, previous_state[cid]), S \ {cid},
                         previous_state)

\* the second loop: previous_state has the reported conditions only, so the
\* loop ends with KeyError at the first touched node that was not reported,
\* after the nodes the set iteration happened to yield before it. The list
\* of notifiers the loop runs over is built first, from _conditions, with
\* KeyError for a touched node that is no longer registered; nothing is
\* left to do when the first loop raised.
state_changes(E, touched, reported, previous_state) ==
  IF E.err # "" THEN {E}
  ELSE IF \E c \in touched : E.cs[c].st = "ABSENT"
  THEN {[E EXCEPT !.err = "KeyError"]}
  ELSE IF touched \subseteq reported
  THEN {handle_changes(E, touched, previous_state)}
  ELSE {[handle_changes(E, P, previous_state) EXCEPT !.err = "KeyError"] :
          P \in SUBSET (touched \cap reported)}

Range(s) == {s[i] : i \in 1..Len(s)}

report_condition_event(E, conds) ==
  IF \E c \in Range(conds) : E.cs[c].st = "ABSENT"
  THEN {[E EXCEPT !.err = "KeyError"]}
  ELSE LET previous_state == [c \in Conds |-> E.cs[c].st]
           notifiers == [i \in 1..Len(conds) |-> notifier_of(E, conds[i])]
       IN UNION { state_changes(r.e, r.touched, Range(conds), previous_state) :
                    r \in bfs([E EXCEPT !.oce = {}, !.again = FALSE,
                                        !.moved = {}, !.stale = FALSE],
                             notifiers, {}) }

\* ------------------------------------------------------- timer callbacks
\* _on_condition_timeout.inner, the done-callback of the timeout sleep k
on_condition_timeout(E, k) ==
  LET cid == k.cid
      E0  == [E EXCEPT !.tk = BagRemove(E.tk, k)]
  IN IF ~ E.tt[cid] THEN [E0 EXCEPT !.err = "KeyError"]
     ELSE LET E1 == cancel_duration(
                      IF k.cur THEN [E0 EXCEPT !.tt[cid] = FALSE]
                               ELSE Unref(E0, "timeout", cid), cid)
              E2 == [E1 EXCEPT !.cs[cid] = [st |-> "TIMEOUT", ev |-> k.ev,
                                            toev |-> k.toev]]
          IN notify_timeout(E2, k.toev)

\* _on_duration_timer.inner, the done-callback of the duration sleep k; the
\* result is the set of outcomes of the report pass it starts for the parents
on_duration_timer(E, k) ==
  LET cid == k.cid
      E0  == [E EXCEPT !.tk = BagRemove(E.tk, k)]
  IN IF ~ E.dt[cid] THEN {[E0 EXCEPT !.err = "KeyError"]}
     ELSE LET E1 == cancel_timeout(
                      IF k.cur THEN [E0 EXCEPT !.dt[cid] = FALSE]
                               ELSE Unref(E0, "duration", cid), cid)
              E2 == [E1 EXCEPT !.cs[cid] = [st |-> "ON", ev |-> k.ev,
                                            toev |-> k.toev]]
              E3 == notify(E2, k.ev)
              parents == {p \in E3.dp[cid] : E3.cs[p].st # "ABSENT"}
          IN IF parents = {} THEN {E3}
             ELSE UNION { report_condition_event(
                            [E3 EXCEPT !.ca = inform_parents(E3.ca, ps, 1, cid, TRUE)],
                            ps) : ps \in Orders(parents) }

\* ------------------------------------------------------- events
\* Event objects are numbered; the fired and the timed_out Event made by one
\* call have the same number. The numbers something still refers to:
UsedEvents(cs, tk, w, rt) ==
  ({cs[c].ev : c \in Conds} \cup {cs[c].toev : c \in Conds}
   \cup {k.ev : k \in DOMAIN tk} \cup {k.toev : k \in DOMAIN tk}
   \cup {w.ev, w.toev} \cup {rt[r].ev : r \in TaskIds}) \ {None}

FreeEvents == EventIds \ UsedEvents(conditions, tasks, waiter, rule_tasks)

\* aio.Event(): the lowest unused number, both Events unset
FreshEvent == CHOOSE e \in FreeEvents : \A x \in FreeEvents : e <= x

\* the engine state E, the waiter w, the rule tasks rt and the suspended
\* set sr become the next state
CommitAll(E, w, rt, sr, op, arg) ==
  /\ BagCardinality(E.tk) <= MaxTasks
  /\ BagCardinality([k \in {x \in DOMAIN E.tk : x.cancelled} |-> E.tk[k]]) <= MaxStale
  /\ conditions' = E.cs
  /\ dependencies' = E.dp
  /\ duration_timers' = E.dt
  /\ timeout_timers' = E.tt
  /\ tasks' = E.tk
  /\ cache' = E.ca
  /\ duration' = E.du
  /\ timeout' = E.to
  /\ events' = E.es \cap UsedEvents(E.cs, E.tk, w, rt)
  /\ timeout_events' = E.ts \cap UsedEvents(E.cs, E.tk, w, rt)
  /\ waiter' = w
  /\ removedHook' = E.hk
  /\ rule_tasks' = rt
  /\ suspended_rules' = sr
  /\ last' = [op |-> op, arg |-> arg, res |-> E.err, again |-> E.again,
              stale |-> E.stale]
  /\ UNCHANGED <<val, clock, until>>

\* a call of the engine that the rule manager has no part in
Commit(E, w, op, arg) == CommitAll(E, w, rule_tasks, suspended_rules, op, arg)

\* ------------------------------------------------------- Init
Idle == [pc |-> "idle", cond |-> "a", ev |-> None, toev |-> None, result |-> FALSE]

\* a rule id that no install_* call has been given: no task, no Event
NoTask == [pc |-> "absent", kind |-> "none", trigger |-> "none", ev |-> None,
           must_cancel |-> FALSE, result |-> "", lost |-> FALSE]

\* no wait_until call has been made
NotWaiting == [pc |-> "idle", t |-> 0, target_time |-> <<>>]

\* The engine is empty; the conditions of timed may have been given a
\* duration and a timeout by the program that built them. The program
\* starts at one of the datetimes nows.
InitAt(timed, nows) ==
  /\ conditions = [c \in Conds |-> NoEntry]
  /\ dependencies = [c \in Conds |-> {}]
  /\ duration_timers = [c \in Conds |-> FALSE]
  /\ timeout_timers = [c \in Conds |-> FALSE]
  /\ tasks = EmptyBag
  /\ cache = [p \in Composites |-> [s \in Conds |-> FALSE]]
  /\ duration \in [Conds -> {None} \cup Durations]
  /\ timeout \in [Conds -> {None} \cup Timeouts]
  /\ \A c \in Conds \ timed : duration[c] = None /\ timeout[c] = None
  /\ val = [l \in Leaves |-> FALSE]
  /\ events = {}
  /\ timeout_events = {}
  /\ waiter = Idle
  /\ removedHook = "unknown"
  /\ rule_tasks = [r \in TaskIds |-> NoTask]
  /\ suspended_rules = {}
  /\ last = [op |-> "init", arg |-> <<>>, res |-> "", again |-> FALSE,
            stale |-> FALSE]
  /\ until = NotWaiting
  /\ clock \in nows

\* the same, started at midnight of the first day of the calendar
InitOf(timed) == InitAt(timed, {Epoch})

\* the variables of the engine and of wait_for
engine_vars_only == <<conditions, dependencies, duration_timers, timeout_timers,
                      tasks, cache, duration, timeout, val, events,
                      timeout_events, waiter, removedHook>>

\* ------------------------------------------------------- actions
\* no done-callback is waiting to run
NoneDue == \A k \in DOMAIN tasks : ~ k.cancelled /\ k.rem > 0

\* the outside world changes what a leaf evaluates to
Flip(l) ==
  /\ val' = [val EXCEPT ![l] = ~ @]
  /\ last' = [op |-> "flip", arg |-> <<l>>, res |-> "", again |-> FALSE,
            stale |-> FALSE]
  /\ UNCHANGED <<conditions, dependencies, duration_timers, timeout_timers, tasks,
                 cache, duration, timeout, events, timeout_events, waiter,
                 removedHook, rule_tasks, suspended_rules, clock, until>>

\* engine.add_condition(c, E, T) with two fresh Events, by a caller that has
\* not registered c
AddCondition(c) ==
  /\ conditions[c].st = "ABSENT"
  /\ FreeEvents # {}
  /\ Commit(add_condition(Engine, c, FreshEvent, FreshEvent), waiter, "add", <<c>>)

\* what removed() of c turns out to be
Hooks(c) == IF c \in Leaves /\ removedHook = "unknown" THEN {"yes", "no"}
            ELSE {removedHook}

\* engine.remove_condition(c)
RemoveCondition(c) ==
  \E hk \in Hooks(c) :
     Commit(remove_condition([Engine EXCEPT !.hk = hk], c), waiter, "remove", <<c>>)

\* engine.report_condition_event(conds)
Report(conds) ==
  \E E \in report_condition_event(Engine, conds) :
     Commit(E, waiter, "report", conds)

\* one time unit passes for every sleep task; done-callbacks that are due
\* run first
Tick ==
  /\ tasks # EmptyBag
  /\ NoneDue
  /\ tasks' = [k \in {[r EXCEPT !.rem = @ - 1] : r \in DOMAIN tasks} |->
                 tasks[[k EXCEPT !.rem = @ + 1]]]
  /\ last' = [op |-> "tick", arg |-> <<>>, res |-> "", again |-> FALSE,
            stale |-> FALSE]
  /\ UNCHANGED <<conditions, dependencies, duration_timers, timeout_timers,
                 cache, duration, timeout, val, events, timeout_events, waiter,
                 removedHook, rule_tasks, suspended_rules, clock, until>>

\* the sleep elapsed or was cancelled: the event loop runs its done-callback
Due(k) == k.cancelled \/ k.rem = 0

\* how the sleep task ended, for the record of the call
Outcome(k) == IF k.cancelled THEN "cancelled" ELSE "elapsed"

\* the done-callback of a timeout sleep
TimeoutCallback ==
  \E k \in DOMAIN tasks :
    /\ Due(k) /\ k.kind = "timeout"
    /\ Commit(on_condition_timeout(Engine, k), waiter, "timeout_timer",
              <<k.cid, Outcome(k)>>)

\* the done-callback of a duration sleep
DurationCallback ==
  \E k \in DOMAIN tasks :
    /\ Due(k) /\ k.kind = "duration"
    /\ \E E \in on_duration_timer(Engine, k) :
          Commit(E, waiter, "duration_timer", <<k.cid, Outcome(k)>>)

\* engine.report_condition_event(conds) for registered conditions, one of
\* them the leaf at whose evaluate() calls engine.remove_condition(x)
ReportRemoving(conds, at, x) ==
  /\ at # x
  /\ at \in Range(conds)
  /\ \A c \in Range(conds) : conditions[c].st # "ABSENT"
  /\ \E hk \in Hooks(x) :
       \E E \in report_condition_event(
                  [Engine EXCEPT !.hk = hk, !.rm = [at |-> at, x |-> x]], conds) :
          Commit(E, waiter, "report_removing", <<at, x>> \o conds)

\* ------------------------------------------------------- wait_until
\* RuleUtilities.wait_until(t) up to its await
WaitUntil(t) ==
  /\ until.pc # "sleeping"
  /\ until' = IF target_time(clock, t) = "ValueError"
              THEN [pc |-> "raised", t |-> t, target_time |-> <<>>]
              ELSE [pc |-> "sleeping", t |-> t, target_time |-> target_time(clock, t)]
  /\ last' = [op |-> "wait_until", arg |-> <<t>>,
              res |-> IF target_time(clock, t) = "ValueError" THEN "ValueError" ELSE "",
              again |-> FALSE, stale |-> FALSE]
  /\ UNCHANGED <<engine_vars_only, rule_tasks, suspended_rules, clock>>

\* aio.sleep(wait_time) is over: wait_time after the call the clock shows
\* target_time and wait_until returns
WaitUntilReturns ==
  /\ until.pc = "sleeping"
  /\ clock' = until.target_time
  /\ until' = [until EXCEPT !.pc = "returned"]
  /\ last' = [op |-> "wait_until_returns", arg |-> <<until.t>>, res |-> "",
              again |-> FALSE, stale |-> FALSE]
  /\ UNCHANGED <<engine_vars_only, rule_tasks, suspended_rules>>

\* ------------------------------------------------------- wait_for
\* a variant of invalid_wait that accepts a timeout equal to the duration
invalid_wait_strict(tmo, dur) == tmo # None /\ dur # None /\ tmo < dur

\* the test of wait_for that raises ValueError
invalid_wait(tmo, dur) == tmo # None /\ dur # None /\ tmo <= dur

\* RuleUtilities.wait_for up to its first await: validation, the duration
\* and timeout attributes, the Events, add_condition
WaitFor(c, tmo, dur) ==
  /\ waiter.pc # "waiting"
  /\ IF invalid_wait(tmo, dur)
     THEN Commit([Engine EXCEPT !.err = "ValueError"],
                 [Idle EXCEPT !.pc = "raised", !.cond = c], "wait_for",
                 <<c, tmo, dur>>)
     ELSE /\ EventIds \ UsedEvents(conditions, tasks, Idle, rule_tasks) # {}
          /\ LET free == EventIds \ UsedEvents(conditions, tasks, Idle, rule_tasks)
                 e  == CHOOSE x \in free : \A y \in free : x <= y
                 to == IF tmo # None THEN e ELSE None
                 E0 == [Engine EXCEPT
                          !.du[c] = IF dur # None THEN dur ELSE @,
                          !.to[c] = IF tmo # None THEN tmo ELSE @,
                          !.es = @ \ {e}, !.ts = @ \ {e}]
             IN Commit(add_condition(E0, c, e, to),
                       [pc |-> "waiting", cond |-> c, ev |-> e, toev |-> to,
                        result |-> FALSE], "wait_for", <<c, tmo, dur>>)

\* _wait_for_condition after its await: the names of the tasks that are done
done_tasks == (IF waiter.ev \in events THEN {"condition"} ELSE {})
              \cup (IF waiter.toev # None /\ waiter.toev \in timeout_events
                    THEN {"timeout"} ELSE {})

\* a variant of wait_result that does not look at the name of the task
wait_result_any_task(toev, completed_task) == TRUE

\* what _wait_for_condition returns once remove_condition has returned
wait_result(toev, completed_task) ==
  IF toev # None THEN completed_task # "timeout" ELSE TRUE

\* _wait_for_condition from its await on: remove_condition, then the result;
\* the record of the call names the task taken from done ("event" when the
\* call has no timeout and awaits the Event itself)
WaitForResume ==
  /\ waiter.pc = "waiting"
  /\ done_tasks # {}
  /\ \E hk \in Hooks(waiter.cond), completed_task \in done_tasks :
       LET E == remove_condition([Engine EXCEPT !.hk = hk], waiter.cond)
           result == wait_result(waiter.toev, completed_task)
       IN Commit(E, [Idle EXCEPT !.pc = IF E.err = "" THEN "returned" ELSE "raised",
                                 !.cond = waiter.cond,
                                 !.result = IF E.err = "" THEN result ELSE FALSE],
                 "wait_for_resume",
                 <<waiter.cond, IF waiter.toev = None THEN "event" ELSE completed_task>>)

\* ------------------------------------------------------- rule manager
\* A rule task t is a record: pc is where its coroutine stands ("created"
\* before its first step, "waiting" in await event.wait(), "sleeping" in
\* await aio.sleep, "action" in await action(...), "done" once it returned,
\* raised or was cancelled, "removed" after its done-callback), trigger the
\* condition of the running iteration, ev the Event it waits for, must_cancel
\* that task.cancel() was called, result how the coroutine ended, lost that
\* _tasks no longer holds the task although its done-callback has not run.

\* the keys of RuleManager._tasks
get_all_rules(rt) ==
  {Name(k) : k \in {x \in TaskIds : /\ rt[x].pc \notin {"absent", "removed"}
                                    /\ ~ rt[x].lost}}

\* self._tasks[rule_id] for a key of _tasks
task_of(rt, rule_id) ==
  CHOOSE k \in TaskIds : /\ Name(k) = rule_id
                         /\ rt[k].pc \notin {"absent", "removed"}
                         /\ ~ rt[k].lost

\* task.done()
done(t) == t.pc = "done"

\* the coroutine of t ends with an exception, a cancellation or a return
ended(t, how) == [t EXCEPT !.pc = "done", !.result = how, !.trigger = "none",
                           !.ev = None]

\* what a trigger provider may return: a leaf condition or a value that is
\* no AbstractCondition
Triggers == Leaves \cup {"x"}

\* a variant of trigger_error that accepts a trigger with a timeout
trigger_error_any_timeout(t, to) == IF t \notin Conds THEN "ValueError" ELSE ""

\* the validation of _run_triggered_rule: "" when the trigger passes
trigger_error(t, to) ==
  IF t \notin Conds THEN "ValueError"
  ELSE IF to[t] # None THEN "ValueError" ELSE ""

\* _run_triggered_rule from the top of the loop to await event.wait(), for
\* the provider's answer trigger and the new Event ev
arm_trigger(E, t, trigger, ev) ==
  IF trigger_error(trigger, E.to) # ""
  THEN [e |-> [E EXCEPT !.err = trigger_error(trigger, E.to)],
        t |-> ended(t, trigger_error(trigger, E.to))]
  ELSE LET E1 == add_condition(E, trigger, ev, None)
       IN [e |-> E1,
           t |-> IF E1.err # "" THEN ended(t, E1.err)
                 ELSE [t EXCEPT !.pc = "waiting", !.trigger = trigger, !.ev = ev]]

\* a variant of remove_trigger that leaves the trigger registered
keep_trigger(E, trigger) == E

\* self._engine.remove_condition(trigger) after the Event fired
remove_trigger(E, trigger) == remove_condition(E, trigger)

\* what a time provider may answer: an instant after now, an instant not
\* after now, None, or a value that is no datetime
TimeAnswers == {"future", "past", "none", "invalid"}

\* a variant of may_retry that allows a third retry
may_retry_thrice(i) == i < 3

\* the test i < 2 of the inner loop of _run_timed_rule
may_retry(i) == i < 2

RECURSIVE retry(_, _, _)
\* the inner while loop: next_trigger is the k-th answer of the provider,
\* a datetime, and i retries were made; the result is the number of calls
\* made and how that part of the iteration ends
retry(ans, k, i) ==
  IF ans[k] = "past" /\ may_retry(i)
  THEN IF ans[k + 1] \in {"none", "invalid"}
       THEN [calls |-> k + 1, phase |-> "ValueError"]
       ELSE retry(ans, k + 1, i + 1)
  ELSE [calls |-> k, phase |-> IF ans[k] = "future" THEN "sleep" ELSE "returned"]

\* _run_timed_rule from the top of the loop to await aio.sleep, for the
\* answers ans the provider gives call after call
provider_loop(ans) ==
  IF ans[1] = "none" THEN [calls |-> 1, phase |-> "returned"]
  ELSE IF ans[1] = "invalid" THEN [calls |-> 1, phase |-> "ValueError"]
  ELSE retry(ans, 1, 0)

\* how that part ends: "sleep", "returned" or "ValueError"
time_phase(ans) == provider_loop(ans).phase

\* the answers the loop asked for, out of the answers the provider has ready
asked(ans) == SubSeq(ans, 1, provider_loop(ans).calls)

\* the sequences of answers that one iteration can consume
TimeAsked == {asked(ans) : ans \in [1..MaxAnswers -> TimeAnswers]}

timed_loop(t, phase) ==
  IF phase = "sleep" THEN [t EXCEPT !.pc = "sleeping"] ELSE ended(t, phase)

\* a variant of uninstall_rule that leaves the task alone
uninstall_rule_no_cancel(rt, r) == rt

\* uninstall_rule for an id of _tasks: task.cancel() unless the task is done
uninstall_rule(rt, r) ==
  IF done(rt[r]) THEN rt ELSE [rt EXCEPT ![r].must_cancel = TRUE]

\* del self._tasks[task_name] in the done-callback of the task r, for a
\* name that is a key: the task the dict holds under the name loses its entry
unregister(rt, r) ==
  IF task_of(rt, Name(r)) = r THEN [rt EXCEPT ![r].pc = "removed"]
  ELSE [rt EXCEPT ![task_of(rt, Name(r))].lost = TRUE, ![r].pc = "removed"]

\* a variant of on_task_complete that leaves _suspended_rules alone
on_task_complete_keep_suspended(rt, sr, r) ==
  IF Name(r) \notin get_all_rules(rt)
  THEN [rt |-> [rt EXCEPT ![r].pc = "removed"], sr |-> sr, err |-> "KeyError"]
  ELSE [rt |-> unregister(rt, r), sr |-> sr, err |-> ""]

\* _on_task_complete.inner for the task r: del self._tasks[task_name]
\* deletes whatever task the dict holds under the name, and raises KeyError
\* before the discard when the name is no key
on_task_complete(rt, sr, r) ==
  IF Name(r) \notin get_all_rules(rt)
  THEN [rt |-> [rt EXCEPT ![r].pc = "removed"], sr |-> sr, err |-> "KeyError"]
  ELSE [rt |-> unregister(rt, r), sr |-> sr \ {Name(r)}, err |-> ""]

engine_vars == <<conditions, dependencies, duration_timers, timeout_timers, tasks,
                 cache, duration, timeout, val, events, timeout_events, waiter,
                 removedHook, clock, until>>

\* a call of the manager that leaves the engine alone and returns res
Manager(rt, sr, op, r, res) ==
  /\ rule_tasks' = rt
  /\ suspended_rules' = sr
  /\ last' = [op |-> op, arg |-> <<r>>, res |-> res, again |-> FALSE,
              stale |-> FALSE]
  /\ UNCHANGED engine_vars

\* install_trigger_rule(rule, r) with an id that was not used before
InstallTriggerRule(r) ==
  /\ rule_tasks[r].pc = "absent"
  /\ Manager([rule_tasks EXCEPT ![r].pc = "created", ![r].kind = "trigger"],
             suspended_rules, "install_trigger_rule", r, "")

\* install_timed_rule(rule, r) with an id that was not used before
InstallTimedRule(r) ==
  /\ rule_tasks[r].pc = "absent"
  /\ Manager([rule_tasks EXCEPT ![r].pc = "created", ![r].kind = "timed"],
             suspended_rules, "install_timed_rule", r, "")

\* install_timed_rule(rule, "r2") while the id "r2" is a key of _tasks: the
\* new task "r3" takes the entry of the running task
InstallTimedRuleAgain ==
  /\ "r2" \in get_all_rules(rule_tasks)
  /\ rule_tasks["r3"].pc = "absent"
  /\ Manager([rule_tasks EXCEPT ![task_of(rule_tasks, "r2")].lost = TRUE,
                                !["r3"].pc = "created", !["r3"].kind = "timed"],
             suspended_rules, "install_timed_rule", "r2", "")

UninstallRule(r) ==
  IF r \notin get_all_rules(rule_tasks)
  THEN Manager(rule_tasks, suspended_rules, "uninstall_rule", r, "False")
  ELSE Manager(uninstall_rule(rule_tasks, task_of(rule_tasks, r)), suspended_rules,
               "uninstall_rule", r, "True")

SuspendRule(r) ==
  IF r \notin get_all_rules(rule_tasks)
  THEN Manager(rule_tasks, suspended_rules, "suspend_rule", r, "False")
  ELSE Manager(rule_tasks, suspended_rules \cup {r}, "suspend_rule", r, "True")

ResumeRule(r) ==
  IF r \notin get_all_rules(rule_tasks)
  THEN Manager(rule_tasks, suspended_rules, "resume_rule", r, "False")
  ELSE Manager(rule_tasks, suspended_rules \ {r}, "resume_rule", r,
               IF r \in suspended_rules THEN "True" ELSE "False")

\* the task runs on from a point where it was not cancelled
Runs(r, pc) == rule_tasks[r].pc = pc /\ ~ rule_tasks[r].must_cancel

\* the top of the loop of a trigger rule, as the step op of its task; the
\* record of the step names the rule and what the provider answered
TriggerLoopTop(r, op) ==
  /\ FreeEvents # {}
  /\ \E trigger \in Triggers :
       LET a == arm_trigger(Engine, rule_tasks[r], trigger, FreshEvent)
       IN CommitAll(a.e, waiter, [rule_tasks EXCEPT ![r] = a.t],
                    suspended_rules, op, <<r, trigger>>)

\* the top of the loop of a timed rule, as the step op of its task
TimedLoopTop(r, op) ==
  \E ans \in TimeAsked :
     CommitAll([Engine EXCEPT !.err = IF time_phase(ans) = "ValueError"
                                      THEN "ValueError" ELSE ""],
               waiter,
               [rule_tasks EXCEPT ![r] = timed_loop(rule_tasks[r], time_phase(ans))],
               suspended_rules, op, <<r, ans>>)

LoopTop(r, op) ==
  IF rule_tasks[r].kind = "trigger" THEN TriggerLoopTop(r, op)
  ELSE TimedLoopTop(r, op)

\* the first step of the task that install_* created
TaskStart(r) == Runs(r, "created") /\ LoopTop(r, "task_start")

\* the action returns and the loop starts over
ActionReturns(r) == Runs(r, "action") /\ LoopTop(r, "action_returns")

\* a variant of action_raised that runs the rule's loop again from its top
action_restarted(t) == [t EXCEPT !.pc = "created"]

\* await action(*action_args) raises: nothing catches the exception
action_raised(t) == ended(t, "ActionError")

\* the action of r raises an exception
ActionRaises(r) ==
  /\ Runs(r, "action")
  /\ Manager([rule_tasks EXCEPT ![r] = action_raised(@)], suspended_rules,
             "action_raises", r, "ActionError")

\* _run_triggered_rule from event.wait() on: remove_condition, the suspended
\* test, then either the action or the next iteration up to its await
TriggerFired(r) ==
  LET t == rule_tasks[r]
  IN /\ Runs(r, "waiting")
     /\ t.ev \in events
     /\ FreeEvents # {}
     /\ \E hk \in Hooks(t.trigger), trigger \in Triggers :
          LET E1 == remove_trigger([Engine EXCEPT !.hk = hk], t.trigger)
              t1 == [t EXCEPT !.trigger = "none", !.ev = None]
              a  == arm_trigger(E1, t1, trigger, FreshEvent)
          IN IF E1.err # ""
             THEN CommitAll(E1, waiter, [rule_tasks EXCEPT ![r] = ended(t, E1.err)],
                            suspended_rules, "rule_fired", <<r, "none">>)
             ELSE IF Name(r) \in suspended_rules
             THEN CommitAll(a.e, waiter, [rule_tasks EXCEPT ![r] = a.t],
                            suspended_rules, "rule_fired", <<r, trigger>>)
             ELSE CommitAll(E1, waiter,
                            [rule_tasks EXCEPT ![r] = [t EXCEPT !.pc = "action", !.ev = None]],
                            suspended_rules, "rule_fired", <<r, "none">>)

\* _run_timed_rule from aio.sleep on: the suspended test, then either the
\* action or the next iteration up to its await
SleepElapsed(r) ==
  /\ Runs(r, "sleeping")
  /\ IF Name(r) \in suspended_rules THEN TimedLoopTop(r, "rule_fired")
     ELSE CommitAll(Engine, waiter, [rule_tasks EXCEPT ![r].pc = "action"],
                    suspended_rules, "rule_fired", <<r, <<>>>>)

\* the cancelled task gets CancelledError at its await, or never starts
TaskCancelled(r) ==
  /\ rule_tasks[r].pc \in {"created", "waiting", "sleeping", "action"}
  /\ rule_tasks[r].must_cancel
  /\ Manager([rule_tasks EXCEPT ![r] = ended(@, "cancelled")], suspended_rules,
             "task_cancelled", r, "")

\* the done-callback of the task of r
TaskComplete(r) ==
  /\ done(rule_tasks[r])
  /\ LET c == on_task_complete(rule_tasks, suspended_rules, r)
     IN Manager(c.rt, c.sr, "task_complete", r, c.err)

\* ------------------------------------------------------- specifications
\* Propagation through the composites n = NOT a and c = a AND b: the engine
\* is called directly, with the composites and with the leaf a they share;
\* no condition has a duration or a timeout.
Next ==
  \/ \E l \in Leaves : Flip(l)
  \/ \E c \in {"a", "n", "c"} : AddCondition(c)
  \/ \E c \in {"a", "n", "c"} : RemoveCondition(c)
  \/ \E conds \in {<<"a">>, <<"b">>, <<"a", "b">>} : Report(conds)

Spec == InitOf({}) /\ [][Next]_vars

\* A leaf with any duration and timeout: the engine is called directly.
NextTimed ==
  \/ Flip("a")
  \/ AddCondition("a")
  \/ RemoveCondition("a")
  \/ Report(<<"a">>)
  \/ Tick
  \/ TimeoutCallback
  \/ DurationCallback

SpecTimed == InitOf({"a"}) /\ [][NextTimed]_vars

\* wait_for on a leaf, with and without a timeout and a duration.
NextWait ==
  \/ Flip("a")
  \/ Report(<<"a">>)
  \/ Tick
  \/ TimeoutCallback
  \/ DurationCallback
  \/ \E tmo \in {None} \cup Timeouts, dur \in {None} \cup Durations :
        WaitFor("a", tmo, dur)
  \/ WaitForResume

SpecWait == InitOf({}) /\ [][NextWait]_vars

\* time passes while a sleep is pending, and the event loop runs every
\* done-callback that is due and resumes a coroutine whose await is over
SpecWaitFair ==
  /\ SpecWait
  /\ WF_vars(Tick) /\ WF_vars(TimeoutCallback) /\ WF_vars(DurationCallback)
  /\ WF_vars(WaitForResume)

\* wait_for on the composite c = a AND b.
NextWaitAnd ==
  \/ \E l \in Leaves : Flip(l)
  \/ \E conds \in {<<"a">>, <<"b">>} : Report(conds)
  \/ Tick
  \/ TimeoutCallback
  \/ DurationCallback
  \/ \E tmo \in {None} \cup Timeouts, dur \in {None} \cup Durations :
        WaitFor("c", tmo, dur)
  \/ WaitForResume

SpecWaitAnd == InitOf({}) /\ [][NextWaitAnd]_vars

\* A leaf with any duration and timeout that is registered directly and also
\* as the subcondition of n = NOT a; n is added and removed any number of
\* times while the leaf stays registered.
NextShared ==
  \/ Flip("a")
  \/ \E c \in {"a", "n"} : AddCondition(c)
  \/ RemoveCondition("n")
  \/ Report(<<"a">>)
  \/ Tick
  \/ TimeoutCallback
  \/ DurationCallback

SpecShared == InitOf({"a"}) /\ [][NextShared]_vars

\* a three-level graph (g = NOT c, c = a AND b) and reports that list a leaf,
\* its parent, or both
NextDeep ==
  \/ \E l \in Leaves : Flip(l)
  \/ \E c \in {"c", "g"} : AddCondition(c)
  \/ RemoveCondition("g")
  \/ \E conds \in {<<"a">>, <<"b">>, <<"c">>, <<"a", "c">>, <<"a", "b">>} : Report(conds)

SpecDeep == InitOf({}) /\ [][NextDeep]_vars

\* d = a AND n with n = NOT a: d depends on the leaf a directly and through n
NextDiamond ==
  \/ Flip("a")
  \/ \E c \in {"a", "n", "d"} : AddCondition(c)
  \/ RemoveCondition("d")
  \/ \E conds \in {<<"a">>, <<"a", "n">>, <<"a", "n", "d">>, <<"a", "d", "n">>} :
        Report(conds)

SpecDiamond == InitOf({}) /\ [][NextDiamond]_vars

\* the leaf a may carry a duration and a timeout and is registered as the
\* subcondition of c = a AND b, alone or below g = NOT c
NextChain ==
  \/ \E l \in Leaves : Flip(l)
  \/ \E c \in {"c", "g"} : AddCondition(c)
  \/ RemoveCondition("g")
  \/ Report(<<"a">>)
  \/ Tick
  \/ TimeoutCallback
  \/ DurationCallback

SpecChain == InitOf({"a"}) /\ [][NextChain]_vars

\* wait_until called at any datetime of the calendar
NextClock ==
  \/ \E t \in Tods : WaitUntil(t)
  \/ WaitUntilReturns

SpecClock == InitAt({}, Datetimes) /\ [][NextClock]_vars

\* the leaves a and b are registered directly and below c = a AND b; the
\* evaluate() of one leaf may remove the other leaf from the engine
NextRemoving ==
  \/ \E l \in Leaves : Flip(l)
  \/ \E c \in {"a", "b", "c"} : AddCondition(c)
  \/ \E c \in {"a", "b"} : RemoveCondition(c)
  \/ \E conds \in {<<"a", "b">>, <<"b", "a">>} : Report(conds)
  \/ \E conds \in {<<"a", "b">>, <<"b", "a">>}, at, x \in Leaves :
        ReportRemoving(conds, at, x)

SpecRemoving == InitOf({}) /\ [][NextRemoving]_vars

\* a trigger rule r1 and a timed rule r2; the leaf b may carry a timeout
NextRules ==
  \/ Flip("a")
  \/ Report(<<"a">>)
  \/ InstallTriggerRule("r1")
  \/ InstallTimedRule("r2")
  \/ \E r \in RuleIds : UninstallRule(r)
  \/ \E r \in RuleIds : SuspendRule(r)
  \/ \E r \in RuleIds : ResumeRule(r)
  \/ \E r \in RuleIds : TaskStart(r)
  \/ \E r \in RuleIds : ActionReturns(r)
  \/ \E r \in RuleIds : ActionRaises(r)
  \/ \E r \in RuleIds : TriggerFired(r)
  \/ \E r \in RuleIds : SleepElapsed(r)
  \/ \E r \in RuleIds : TaskCancelled(r)
  \/ \E r \in RuleIds : TaskComplete(r)

InitRules ==
  /\ InitOf({"b"})
  /\ duration["b"] = None
  /\ timeout["b"] \in {None, MaxTimeout}

SpecRules == InitRules /\ [][NextRules]_vars

\* the timed rule r2 and a second install_timed_rule call with its id
NextRulesAgain ==
  \/ InstallTimedRule("r2")
  \/ InstallTimedRuleAgain
  \/ UninstallRule("r2")
  \/ SuspendRule("r2")
  \/ ResumeRule("r2")
  \/ \E r \in {"r2", "r3"} : TaskStart(r)
  \/ \E r \in {"r2", "r3"} : ActionReturns(r)
  \/ \E r \in {"r2", "r3"} : ActionRaises(r)
  \/ \E r \in {"r2", "r3"} : SleepElapsed(r)
  \/ \E r \in {"r2", "r3"} : TaskCancelled(r)
  \/ \E r \in {"r2", "r3"} : TaskComplete(r)

SpecRulesAgain == InitOf({}) /\ [][NextRulesAgain]_vars

\* the event loop runs a cancelled task and the done-callback of a task that
\* is done
SpecRulesFair ==
  /\ SpecRules
  /\ \A r \in RuleIds : WF_vars(TaskCancelled(r)) /\ WF_vars(TaskComplete(r))

\* ------------------------------------------------------- claims
\* the step is the call with this name and these arguments
Called(op, arg) == last'.op = op /\ last'.arg = arg

\* c is registered, OFF, and its fired Event is not set
WaitingOnC == /\ conditions["c"].st = "OFF"
              /\ conditions["c"].ev # None
              /\ conditions["c"].ev \notin events

\* C1: c = a AND b is registered with event E while a and b are false. After
\* a became true, report_condition_event([a]) returns normally and leaves E
\* unset; after b became true too, report_condition_event([b]) returns
\* normally, sets E and leaves c ON.
C1_SimpleAndFiresOnce ==
  [][ /\ ( /\ WaitingOnC
           /\ conditions["a"].st = "OFF" /\ conditions["b"].st = "OFF"
           /\ ~ cache["c"]["a"] /\ ~ cache["c"]["b"]
           /\ val["a"] /\ ~ val["b"]
           /\ Called("report", <<"a">>) )
         => ( /\ last'.res = ""
              /\ conditions'["c"].ev = conditions["c"].ev
              /\ conditions'["c"].ev \notin events' )
      /\ ( /\ WaitingOnC
           /\ conditions["a"].st = "ON" /\ conditions["b"].st = "OFF"
           /\ cache["c"]["a"] /\ ~ cache["c"]["b"]
           /\ val["a"] /\ val["b"]
           /\ Called("report", <<"b">>) )
         => ( /\ last'.res = ""
              /\ conditions'["c"].st = "ON"
              /\ conditions'["c"].ev = conditions["c"].ev
              /\ conditions'["c"].ev \in events' )
    ]_vars

\* the duration timer that the engine holds for c has run out
DurationElapsed(c) ==
  /\ duration_timers[c]
  /\ LET k == CurTask(tasks, "duration", c) IN k.rem = 0 /\ ~ k.cancelled

\* C2: a registered condition with a duration that is OFF and evaluates true
\* in report_condition_event goes to PENDING with fired unset; the elapse of
\* its duration timer moves it to ON and signals fired; while it is PENDING,
\* fired is signalled and ON is reached only by the elapse of the duration
\* timer armed when it entered PENDING.
C2_DurationGating ==
  [][ /\ ( /\ conditions["a"].st = "OFF" /\ duration["a"] # None /\ val["a"]
           /\ Called("report", <<"a">>) )
         => ( /\ conditions'["a"].st = "PENDING"
              /\ conditions'["a"].ev \notin events'
              /\ duration_timers'["a"]
              /\ CurTask(tasks', "duration", "a").rem = duration["a"] )
      /\ Called("duration_timer", <<"a", "elapsed">>)
         => ( /\ last'.res = ""
              /\ conditions'["a"].st = "ON"
              /\ conditions'["a"].ev \in events' )
      /\ ( /\ conditions["a"].st = "PENDING"
           /\ \/ conditions'["a"].st = "ON"
              \/ events' \ events # {} )
         => ( /\ DurationElapsed("a")
              /\ Called("duration_timer", <<"a", "elapsed">>) )
    ]_vars

\* C3: when report_condition_event visits a condition that is PENDING and
\* whose evaluate() returns false, the call leaves its stored state OFF,
\* leaves it without a duration timer and signals no fired event.
C3_PendingToOff ==
  [][ ( /\ conditions["a"].st = "PENDING" /\ ~ val["a"]
        /\ Called("report", <<"a">>) )
      => ( /\ conditions'["a"].st = "OFF"
           /\ ~ duration_timers'["a"]
           /\ events' = events )
    ]_vars

\* C4: when report_condition_event visits a condition whose stored state is
\* ON and whose evaluate() returns false, the state stored for it after the
\* call is OFF.
C4_OnToOff ==
  [][ ( /\ conditions["a"].st = "ON" /\ ~ val["a"]
        /\ Called("report", <<"a">>) )
      => conditions'["a"].st = "OFF"
    ]_vars

\* n is registered and its fired Event is not set
WaitingOnN == conditions["n"].ev # None /\ conditions["n"].ev \notin events

\* C5: n = NOT a is registered with event E while a is false, so n starts ON
\* with E unset. After a became true, report_condition_event([a]) returns
\* normally and leaves n OFF without signalling E; after a became false
\* again, report_condition_event([a]) returns normally, moves n from OFF to
\* ON and signals E.
C5_NotFiresOnFallingLeaf ==
  [][ /\ ( /\ WaitingOnN
           /\ conditions["n"].st = "ON" /\ conditions["a"].st = "OFF"
           /\ ~ cache["n"]["a"] /\ val["a"]
           /\ Called("report", <<"a">>) )
         => ( /\ last'.res = ""
              /\ conditions'["n"].st = "OFF"
              /\ conditions'["n"].ev = conditions["n"].ev
              /\ conditions'["n"].ev \notin events' )
      /\ ( /\ WaitingOnN
           /\ conditions["n"].st = "OFF" /\ conditions["a"].st = "ON"
           /\ cache["n"]["a"] /\ ~ val["a"]
           /\ Called("report", <<"a">>) )
         => ( /\ last'.res = ""
              /\ conditions'["n"].st = "ON"
              /\ conditions'["n"].ev = conditions["n"].ev
              /\ conditions'["n"].ev \in events' )
    ]_vars

\* the step is the return of the wait_for call on c
Returned(c) ==
  last'.op = "wait_for_resume" /\ last'.arg[1] = c /\ waiter'.pc = "returned"

\* C6: a wait_for call that returns, returns true if and only if the
\* condition reached ON and its fired event was signalled, and false if and
\* only if the timeout timer elapsed first, leaving the condition in TIMEOUT
\* with timed_out signalled; the two never hold together.
C6_WaitForResult ==
  [][ Returned("a")
      => LET fired     == waiter.ev \in events /\ conditions["a"].st = "ON"
             timed_out == /\ waiter.toev # None
                          /\ waiter.toev \in timeout_events
                          /\ conditions["a"].st = "TIMEOUT"
         IN /\ waiter'.result <=> fired
            /\ ~ waiter'.result <=> timed_out
            /\ ~ (waiter.ev \in events /\ waiter.toev \in timeout_events)
    ]_vars

\* a wait_for call with timeout T and duration D < T has returned true
C6_ReturnedTrue ==
  /\ last.op = "wait_for_resume" /\ last.arg = <<"a", "condition">>
  /\ waiter.pc = "returned" /\ waiter.result
  /\ duration["a"] # None /\ timeout["a"] # None /\ duration["a"] < timeout["a"]

C8_WaitForValidation ==
  [][ \A tmo \in Timeouts, dur \in Durations :
        (tmo <= dur /\ Called("wait_for", <<"a", tmo, dur>>))
        => /\ last'.res = "ValueError"
           /\ waiter'.pc = "raised"
           /\ UNCHANGED <<conditions, dependencies, duration_timers,
                          timeout_timers, tasks, cache, duration, timeout,
                          events, timeout_events>>
    ]_vars

\* wait_for has raised ValueError for a condition that has neither attribute
\* set and is not registered
C8_Rejected ==
  /\ last.op = "wait_for" /\ last.res = "ValueError"
  /\ last.arg[2] # None /\ last.arg[3] # None
  /\ duration["a"] = None /\ timeout["a"] = None
  /\ conditions["a"].st = "ABSENT" /\ tasks = EmptyBag

\* C9: add_condition records OFF when evaluate() is false, ON when it is
\* true and no duration is set, PENDING when it is true and a duration is
\* set; it starts a duration timer exactly when the state is PENDING and a
\* timeout timer exactly when a timeout is set and the state is OFF or
\* PENDING, and no other sleep task.
C9_InitialStateTable ==
  [][ Called("add", <<"a">>)
      => LET st == conditions'["a"].st
             started == BagCardinality(tasks') - BagCardinality(tasks)
         IN /\ st = IF ~ val["a"] THEN "OFF"
                    ELSE IF duration["a"] = None THEN "ON" ELSE "PENDING"
            /\ duration_timers'["a"] <=> st = "PENDING"
            /\ timeout_timers'["a"]
                 <=> (timeout["a"] # None /\ st \in {"OFF", "PENDING"})
            /\ duration_timers'["a"]
                 => CurTask(tasks', "duration", "a").rem = duration["a"]
            /\ timeout_timers'["a"]
                 => CurTask(tasks', "timeout", "a").rem = timeout["a"]
            /\ started = (IF duration_timers'["a"] THEN 1 ELSE 0)
                         + (IF timeout_timers'["a"] THEN 1 ELSE 0)
    ]_vars

\* add_condition has just recorded PENDING and started both timers
C9_AddedPending ==
  /\ last.op = "add" /\ last.arg = <<"a">>
  /\ conditions["a"].st = "PENDING"
  /\ duration_timers["a"] /\ timeout_timers["a"]
  /\ BagCardinality(tasks) = 2

\* C10: add_condition signals no fired and no timed_out event, neither of
\* the condition it adds nor of a condition that is already registered,
\* whatever the conditions evaluate to.
C10_NoInitialNotification ==
  [][ last'.op = "add"
      => /\ events' \subseteq events
         /\ timeout_events' \subseteq timeout_events
    ]_vars

\* add_condition has just recorded ON for c = a AND b while another
\* condition with events is registered; no fired event of c is set
C10_AddedOn ==
  /\ last.op = "add" /\ last.arg = <<"c">>
  /\ conditions["c"].st = "ON"
  /\ conditions["c"].ev \notin events
  /\ conditions["n"].st # "ABSENT" /\ conditions["n"].ev # None

\* C11: when the timeout timer of a registered condition elapses (the
\* condition has not become ON, which would have cancelled it), the callback
\* ends normally, the state becomes TIMEOUT, timed_out is signalled, fired is
\* not signalled, and neither a timeout nor a duration timer entry remains.
C11_TimeoutWithoutFire ==
  [][ Called("timeout_timer", <<"a", "elapsed">>)
      => /\ last'.res = ""
         /\ conditions'["a"].st = "TIMEOUT"
         /\ conditions'["a"].toev \in timeout_events'
         /\ conditions'["a"].ev \notin events'
         /\ ~ timeout_timers'["a"]
         /\ ~ duration_timers'["a"]
    ]_vars

\* C12: once the stored state of a registered condition is TIMEOUT, no
\* report_condition_event, timer callback or add_condition of another
\* condition changes its state or signals its fired event; only a
\* remove_condition or an add_condition of the condition itself does.
C12_TimeoutTerminal ==
  [][ ( /\ conditions["a"].st = "TIMEOUT"
        /\ last'.op # "remove"
        /\ ~ Called("add", <<"a">>) )
      => /\ conditions'["a"].st = "TIMEOUT"
         /\ conditions["a"].ev \notin events => conditions["a"].ev \notin events'
    ]_vars

\* C13: in every state between engine operations, each condition whose
\* stored state is PENDING has an entry in duration_timers, and the sleep
\* task of that entry has not been cancelled.
C13_PendingHasDurationTimer ==
  \A c \in Conds :
    conditions[c].st = "PENDING"
    => /\ duration_timers[c]
       /\ \E k \in DOMAIN tasks :
            k.kind = "duration" /\ k.cid = c /\ k.cur /\ ~ k.cancelled

\* a is PENDING with its duration timer while an older duration sleep of a,
\* replaced when a was added again as a subcondition, is still running
C13_PendingAfterReAdd ==
  /\ conditions["a"].st = "PENDING"
  /\ duration_timers["a"]
  /\ \E k \in DOMAIN tasks :
       k.kind = "duration" /\ k.cid = "a" /\ ~ k.cur /\ ~ k.cancelled

\* the sleep tasks of one kind created for c that have neither elapsed nor
\* been cancelled
Outstanding(kind, c) ==
  {k \in DOMAIN tasks : k.kind = kind /\ k.cid = c /\ ~ k.cancelled /\ k.rem > 0}

\* C14: in every reachable state each condition id has at most one
\* outstanding duration timer and at most one outstanding timeout timer,
\* counting every sleep task created for the id that has neither elapsed nor
\* been cancelled.
C14_OneTimerPerId ==
  \A c \in Conds, kind \in {"duration", "timeout"} :
    BagCardinality([k \in Outstanding(kind, c) |-> tasks[k]]) <= 1

\* C15: after any sequence of add_condition and remove_condition calls, for
\* every id in conditions every parent id listed in dependencies[id] is a
\* key of conditions too (and so, step by step, is every ancestor).
C15_AncestorsRegistered ==
  \A id \in Conds :
    conditions[id].st # "ABSENT"
    => \A p \in dependencies[id] : conditions[p].st # "ABSENT"


\* C16: within one report_condition_event invocation no registered parent P
\* receives on_condition_event(C, .) for the same child C more than once,
\* whatever the dependency graph and the argument list are.
C16_InformedOnce ==
  [][ last'.op = "report" => ~ last'.again ]_vars


\* the task of r resumed after its trigger fired or its sleep ended
Firing(r) == last'.op = "rule_fired" /\ last'.arg[1] = r

\* C17: at a firing of a rule (its fired Event observed, or its sleep over)
\* the action is started exactly when the rule's id is not in suspended; a
\* suspended rule skips the action and goes on to its next trigger or time
\* unless the provider ends the loop.
C17_ActionIffNotSuspended ==
  [][ \A r \in RuleIds : Firing(r)
        => /\ rule_tasks'[r].pc = "action" <=> r \notin suspended_rules
           /\ r \in suspended_rules
              => \/ rule_tasks'[r].pc \in {"waiting", "sleeping"}
                 \/ rule_tasks'[r].result \in {"ValueError", "returned"} ]_vars


\* C18: uninstall_rule(id) returns true exactly when id is a key of tasks
\* and otherwise changes neither tasks nor suspended; when it returns true
\* for a task that is not done the task is cancelled, from then on the
\* rule's action is not started again, and eventually id is in neither
\* tasks nor suspended.
C18_Uninstall ==
  /\ [][ \A r \in RuleIds :
          (last'.op = "uninstall_rule" /\ last'.arg = <<r>>)
          => /\ last'.res = "True" <=> r \in get_all_rules(rule_tasks)
             /\ r \notin get_all_rules(rule_tasks)
                => UNCHANGED <<rule_tasks, suspended_rules>>
             /\ (r \in get_all_rules(rule_tasks) /\ ~ done(rule_tasks[r]))
                => rule_tasks'[r].must_cancel ]_vars
  /\ [][ \A r \in RuleIds :
          (rule_tasks[r].must_cancel /\ rule_tasks[r].pc # "action")
          => rule_tasks'[r].pc # "action" ]_vars
  /\ \A r \in RuleIds :
       rule_tasks[r].must_cancel
       ~> (r \notin get_all_rules(rule_tasks) /\ r \notin suspended_rules)

\* the done-callback has removed the cancelled task of r1
C18_Uninstalled ==
  /\ rule_tasks["r1"].pc = "removed" /\ rule_tasks["r1"].result = "cancelled"
  /\ last.op = "task_complete" /\ last.arg = <<"r1">>


\* the conditions the engine has registered
Registered == {c \in Conds : conditions[c].st # "ABSENT"}

\* C19: while the action of a trigger rule runs, the trigger condition of
\* that firing is not registered in the engine, and the rule task never has
\* more than one trigger condition registered.
C19_TriggerRemovedForAction ==
  /\ \A r \in RuleIds :
       (rule_tasks[r].kind = "trigger" /\ rule_tasks[r].pc = "action")
       => rule_tasks[r].trigger \notin Registered
  /\ Cardinality(Registered) <= 1

\* the action of r1 runs after its trigger a fired
C19_ActionRunning ==
  /\ rule_tasks["r1"].pc = "action" /\ rule_tasks["r1"].trigger = "a"
  /\ last.op = "rule_fired" /\ last.arg = <<"r1", "none">>


\* the task of r ran the top of its loop and the provider answered t
Provided(r, t) ==
  /\ last'.op \in {"task_start", "action_returns", "rule_fired"}
  /\ last'.arg = <<r, t>>

\* the step belongs to the task or the done-callback of r and leaves the
\* other rules as they are
OthersKeepRunning(r) ==
  \A q \in RuleIds \ {r} :
     /\ rule_tasks'[q] = rule_tasks[q]
     /\ q \in suspended_rules' <=> q \in suspended_rules

\* C20: when the trigger provider of a rule returns a value that is no
\* condition, or a condition with a timeout, the rule task ends with
\* ValueError, the condition is not added and the action is not invoked; the
\* done-callback of a task removes its id from tasks and suspended; both
\* steps leave the other rules alone.
C20_TriggerValidation ==
  /\ [][ \A r \in RuleIds, t \in Triggers :
          ( /\ rule_tasks[r].kind = "trigger"
            /\ Provided(r, t)
            /\ (t \notin Conds \/ timeout[t] # None) )
          => /\ done(rule_tasks'[r]) /\ rule_tasks'[r].result = "ValueError"
             /\ last'.res = "ValueError"
             /\ t \notin Registered'
             /\ OthersKeepRunning(r) ]_vars
  /\ [][ \A r \in RuleIds :
          (last'.op = "task_complete" /\ last'.arg = <<r>>)
          => /\ r \notin get_all_rules(rule_tasks')
             /\ r \notin suspended_rules'
             /\ OthersKeepRunning(r) ]_vars

\* the provider of r1 returned b, which has a timeout, while r2 sleeps
C20_Rejected ==
  /\ last.arg = <<"r1", "b">> /\ last.res = "ValueError"
  /\ timeout["b"] # None
  /\ rule_tasks["r1"].result = "ValueError" /\ "r1" \in suspended_rules
  /\ rule_tasks["r2"].pc = "sleeping"


\* the task of the timed rule r made a step; last'.arg[2] are the answers its
\* time provider was asked for in that step
TimedStep(r) ==
  /\ rule_tasks[r].kind = "timed"
  /\ last'.op \in {"task_start", "action_returns", "rule_fired"}
  /\ last'.arg[1] = r

\* C21: one iteration of the timed-rule loop calls the time provider at most
\* three times; three instants that are not in the future end the task
\* without error and without the action; the loop sleeps, and later invokes
\* the action, only for an instant that was in the future when accepted; the
\* done-callback of the finished task removes its id from tasks.
C21_ThreeTries ==
  /\ [][ \A r \in RuleIds : TimedStep(r)
          => LET ans == last'.arg[2]
             IN /\ Len(ans) <= 3
                /\ ans = <<"past", "past", "past">>
                   => /\ done(rule_tasks'[r])
                      /\ rule_tasks'[r].result = "returned"
                      /\ last'.res = ""
                /\ rule_tasks'[r].pc = "sleeping"
                   => ans # <<>> /\ ans[Len(ans)] = "future"
                /\ rule_tasks'[r].pc = "action"
                   => rule_tasks[r].pc = "sleeping" /\ ans = <<>> ]_vars
  /\ [][ \A r \in RuleIds :
          ( /\ last'.op = "task_complete" /\ last'.arg = <<r>>
            /\ rule_tasks[r].result = "returned" )
          => r \notin get_all_rules(rule_tasks') ]_vars

\* the provider of r2 answered three instants that were not in the future
C21_ThreePast ==
  /\ last.arg = <<"r2", <<"past", "past", "past">>>>
  /\ rule_tasks["r2"].result = "returned"

\* C22: whenever the time provider returns None, on the first call of an
\* iteration or on a retry after a past instant, the task completes without
\* an error.
C22_NoneEndsQuietly ==
  [][ \A r \in RuleIds : TimedStep(r)
        => LET ans == last'.arg[2]
           IN (ans # <<>> /\ ans[Len(ans)] = "none")
              => /\ done(rule_tasks'[r])
                 /\ rule_tasks'[r].result = "returned"
                 /\ last'.res = "" ]_vars


\* C23: when the action of a rule raises, the rule's task ends with the
\* exception and its action is never invoked again; the done-callback
\* removes the id from tasks and suspended; no other rule's task, registry
\* entry or suspended flag changes in either step.
C23_ActionException ==
  /\ [][ \A r \in RuleIds :
          (last'.op = "action_raises" /\ last'.arg = <<r>>)
          => /\ done(rule_tasks'[r]) /\ rule_tasks'[r].result = "ActionError"
             /\ r \in get_all_rules(rule_tasks')
             /\ OthersKeepRunning(r) ]_vars
  /\ [][ \A r \in RuleIds :
          rule_tasks[r].result = "ActionError"
          => /\ rule_tasks'[r].result = "ActionError"
             /\ rule_tasks'[r].pc \in {"done", "removed"} ]_vars
  /\ [][ \A r \in RuleIds :
          ( /\ last'.op = "task_complete" /\ last'.arg = <<r>>
            /\ rule_tasks[r].result = "ActionError" )
          => /\ r \notin get_all_rules(rule_tasks')
             /\ r \notin suspended_rules'
             /\ OthersKeepRunning(r) ]_vars

\* the action of r1 raised and its done-callback has run, while the action of
\* r2 is running
C23_Cleaned ==
  /\ rule_tasks["r1"].result = "ActionError" /\ rule_tasks["r1"].pc = "removed"
  /\ last.op = "task_complete" /\ last.arg = <<"r1">>
  /\ rule_tasks["r2"].pc = "action"


\* C24: remove_condition of a condition that is not registered raises no
\* error and changes none of conditions, dependencies, duration_timers and
\* timeout_timers.
C24_RemoveIdempotent ==
  [][ \A c \in Conds :
        (conditions[c].st = "ABSENT" /\ Called("remove", <<c>>))
        => /\ last'.res = ""
           /\ UNCHANGED <<conditions, dependencies, duration_timers,
                          timeout_timers>> ]_vars


\* every registered composite has cached, for each registered child, whether
\* the child's stored state is ON
CacheCoherent ==
  \A p \in Composites \cap Registered :
     \A c \in SubSet(p) \cap Registered :
        cache[p][c] = is_on(conditions[c].st)

\* C25: after every engine operation that completed without error
\* (add_condition, report_condition_event, a timer callback) each registered
\* composite has cached for each registered child the value (stored state of
\* the child = ON).
C25_CacheIsOnState ==
  [][ ( /\ last'.op \in {"add", "report", "duration_timer", "timeout_timer"}
        /\ last'.res = ""
        /\ CacheCoherent )
      => CacheCoherent' ]_vars


\* C26: within one report_condition_event call no condition has a state
\* stored from an evaluate() that used the value a child had before the pass
\* although the child's value changes in the pass: after its state was
\* stored, a parent is not told a new value of a child.
C26_NoStaleEvaluation ==
  [][ last'.op = "report" => ~ last'.stale ]_vars


\* C27: of the two events of a registered condition at most one is ever
\* signalled: where fired is set, timed_out is not set and the state is not
\* TIMEOUT.
C27_OneEventPerRegistration ==
  \A c \in Registered :
     conditions[c].ev \in events
     => /\ conditions[c].toev \notin timeout_events
        /\ conditions[c].st # "TIMEOUT"


\* the only sleep that exists for the duration of n is the one the engine
\* holds in duration_timers, it was not cancelled and it has elapsed
DurationTimerElapses(n) ==
  /\ duration_timers[n]
  /\ \A k \in DOMAIN tasks :
       (k.kind = "duration" /\ k.cid = n)
       => k.cur /\ ~ k.cancelled /\ k.rem = 0 /\ tasks[k] = 1

\* the registered parents of n
Parents(n) == dependencies[n] \cap Registered

\* C28: when the duration timer of a PENDING condition n elapses, the
\* callback completes without error, n is ON, and each registered parent and
\* grandparent that was OFF and evaluates true afterwards is PENDING if it
\* has a duration and otherwise ON with its fired event signalled.
C28_DurationElapsePropagates ==
  [][ \A n \in Conds :
        ( /\ conditions[n].st = "PENDING"
          /\ DurationTimerElapses(n)
          /\ Called("duration_timer", <<n, "elapsed">>) )
        => /\ last'.res = ""
           /\ conditions'[n].st = "ON"
           /\ \A p \in Parents(n) \cup UNION {Parents(q) : q \in Parents(n)} :
                (conditions[p].st = "OFF" /\ evaluate(cache', p))
                => /\ conditions'[p].st =
                        IF duration[p] # None THEN "PENDING" ELSE "ON"
                   /\ conditions'[p].st = "ON"
                      => conditions'[p].ev \in events' \cup {None} ]_vars


\* c and the conditions below it: its subconditions, theirs, and so on (the
\* graphs of this module are at most three levels deep)
Subtree(c) ==
  LET s1 == SubSet(c)
      s2 == UNION {SubSet(x) : x \in s1}
      s3 == UNION {SubSet(x) : x \in s2}
  IN {c} \cup s1 \cup s2 \cup s3

\* C29: after remove_condition(c) of a registered c, c and all of its
\* transitive subconditions are absent from conditions, dependencies,
\* duration_timers and timeout_timers.
C29_RemoveClearsSubtree ==
  [][ \A c \in Registered :
        Called("remove", <<c>>)
        => \A s \in Subtree(c) :
              /\ conditions'[s].st = "ABSENT"
              /\ dependencies'[s] = {}
              /\ ~ duration_timers'[s]
              /\ ~ timeout_timers'[s] ]_vars


\* C30: when evaluate() of a reported leaf removes another reported
\* condition x from the engine during a report_condition_event pass, the
\* pass completes without error, x stays removed, and a reported condition
\* that was OFF and evaluates true is ON with its fired event signalled.
C30_RemovedMidPassSkipped ==
  [][ \A at, x \in Leaves :
        ( /\ last'.op = "report_removing"
          /\ SubSeq(last'.arg, 1, 2) = <<at, x>>
          /\ removedHook' = "yes" )
        => /\ last'.res = ""
           /\ conditions'[x].st = "ABSENT"
           /\ (conditions[at].st = "OFF" /\ val[at] /\ duration[at] = None)
              => /\ conditions'[at].st = "ON"
                 /\ conditions'[at].ev \in events' \cup {None} ]_vars


\* the calendar day after the date of dt
NextDay(dt) ==
  IF dt[3] < DaysIn(dt[1], dt[2]) THEN <<dt[1], dt[2], dt[3] + 1>>
  ELSE IF dt[2] < 12 THEN <<dt[1], dt[2] + 1, 1>>
  ELSE <<dt[1] + 1, 1, 1>>

\* C31: wait_until(t) never fails and sleeps until time t of today when t is
\* later than the current time of day and until time t of the following
\* calendar day when t is earlier; its target is never in the past.
C31_WaitUntilNextOccurrence ==
  [][ \A t \in Tods :
        Called("wait_until", <<t>>)
        => /\ last'.res = ""
           /\ until'.pc = "sleeping"
           /\ ~ Before(until'.target_time, clock)
           /\ t > clock[4] => until'.target_time = combine(date(clock), t)
           /\ t < clock[4] => until'.target_time = combine(NextDay(clock), t)
           /\ t = clock[4] => until'.target_time \in
                 {combine(date(clock), t), combine(NextDay(clock), t)} ]_vars


\* C32: every wait_for call made with a timeout eventually ends: a
\* coroutine that waits with a timed_out Event does not wait forever.
C32_TimedWaitEnds ==
  (waiter.pc = "waiting" /\ waiter.toev # None) ~> (waiter.pc # "waiting")


\* C33: when a rule task ends (cancelled, with an error, or by returning),
\* the trigger condition it had added to the engine is no longer in
\* conditions and has no duration or timeout timer armed.
C33_EndedTaskLeavesNothing ==
  [][ \A r \in RuleIds :
        (rule_tasks[r].pc # "done" /\ rule_tasks'[r].pc = "done")
        => \A c \in Conds :
              rule_tasks[r].trigger = c
              => /\ conditions'[c].st = "ABSENT"
                 /\ ~ duration_timers'[c]
                 /\ ~ timeout_timers'[c] ]_vars


\* C34: the done-callback of a cancelled timer sleep changes no condition's
\* state or notifier, deletes no entry of duration_timers or timeout_timers
\* and signals no event.
C34_CancelledTimerInert ==
  [][ ( /\ last'.op \in {"duration_timer", "timeout_timer"}
        /\ last'.arg[2] = "cancelled" )
      => /\ conditions' = conditions
         /\ duration_timers' = duration_timers
         /\ timeout_timers' = timeout_timers
         /\ events' \subseteq events
         /\ timeout_events' \subseteq timeout_events ]_vars


\* C35: a condition whose fired event a report_condition_event pass signals
\* evaluates true at the end of the pass.
C35_FiredMeansTrue ==
  [][ last'.op = "report"
      => \A c \in Conds :
            (conditions'[c].ev # None /\ conditions'[c].ev \in events' \ events)
            => evaluate(cache', c) ]_vars


\* C36: each subcondition of a registered condition is registered and has
\* a dependencies edge to that parent.
C36_SubconditionsRegistered ==
  \A p \in Registered :
     \A s \in SubSet(p) : s \in Registered /\ p \in dependencies[s]


\* C37: add_condition(p) leaves every condition that was registered before
\* the call as it was: the same notifier events and stored state, the same
\* timer entries and the same outstanding sleep tasks.
C37_AddKeepsRegistrations ==
  [][ \A p \in Conds :
        Called("add", <<p>>)
        => \A s \in Registered :
              /\ conditions'[s] = conditions[s]
              /\ duration_timers'[s] = duration_timers[s]
              /\ timeout_timers'[s] = timeout_timers[s]
              /\ \A kind \in {"duration", "timeout"} :
                    BagCardinality([k \in Outstanding(kind, s)' |-> tasks'[k]])
                    = BagCardinality([k \in Outstanding(kind, s) |-> tasks[k]])
    ]_vars


\* C38: every id in _suspended_rules is a key of _tasks; suspend_rule adds
\* an id only if it is a key, and a completion callback that deletes a key
\* leaves the id out of _suspended_rules.
C38_SuspendedAreInstalled ==
  /\ [](suspended_rules \subseteq get_all_rules(rule_tasks))
  /\ [][ \A r \in RuleIds :
           Called("suspend_rule", <<r>>)
           => /\ last'.res = "True" <=> r \in get_all_rules(rule_tasks)
              /\ r \in suspended_rules' \ suspended_rules
                 => r \in get_all_rules(rule_tasks) ]_vars
  /\ [][ \A k \in TaskIds :
           (Called("task_complete", <<k>>) /\ last'.res = "")
           => /\ Name(k) \in get_all_rules(rule_tasks)
              /\ Name(k) \notin get_all_rules(rule_tasks')
              /\ Name(k) \notin suspended_rules' ]_vars

\* reached: the id r2 was suspended while a second install had taken its
\* entry, and the completion callback of the first task has deleted the
\* entry of the second and the id from the suspended set; the second task
\* is still running
C38_SuspendedCleaned ==
  /\ last.op = "task_complete" /\ last.arg = <<"r2">> /\ last.res = ""
  /\ rule_tasks["r3"].lost /\ rule_tasks["r3"].pc = "sleeping"
  /\ suspended_rules = {}


\* C39: every task that was installed and is not done is the task that
\* _tasks holds under its name, and every completion callback runs without
\* error.
C39_RunningTasksRegistered ==
  /\ [](\A k \in TaskIds :
          rule_tasks[k].pc \in {"created", "waiting", "sleeping", "action"}
          => /\ Name(k) \in get_all_rules(rule_tasks)
             /\ task_of(rule_tasks, Name(k)) = k)
  /\ [][ \A k \in TaskIds : Called("task_complete", <<k>>) => last'.res = "" ]_vars


\* C40: while a wait_for call made without a timeout is pending, the
\* condition it installed is not in state TIMEOUT and has no timeout timer.
C40_UntimedWaitHasNoTimeout ==
  (waiter.pc = "waiting" /\ waiter.toev = None)
  => /\ conditions[waiter.cond].st # "TIMEOUT"
     /\ ~ timeout_timers[waiter.cond]

====
